---- MODULE Spec2Model ----
(***************************************************************************)
(* Model of the cover-letter PDF formatter (app/src/utils/pdf-generator.ts):*)
(* generatePDF and generateMarkdownPDF, the two copies of the same layout  *)
(* routine, told apart by the variable `profile`.                          *)
(*                                                                         *)
(* Text.  A string is a sequence of symbols.  A symbol is one character    *)
(* (" ", ",", ":", "[", "]", a digit) or one word treated as a glyph run   *)
(* that no operation of the code looks inside ("Dear", "Jane", ...).       *)
(* A content string is the sequence of its lines, i.e. the value of        *)
(* content.split('\n'); join('\n') is the inverse.                         *)
(*                                                                         *)
(* Lengths.  Vertical offsets are integers in units of 1/Scale mm.         *)
(***************************************************************************)
EXTENDS Integers, Sequences, FiniteSets, TLC

\* ------------------------------------------------------------------ bounds
\* Largest number of filler lines in the body of a long letter.
MaxFill == 40

\* ------------------------------------------------------------ string model
\* String.prototype.toLowerCase on one symbol.
Lower(s) ==
    CASE s = "Dear" -> "dear"
      [] s = "DEAR" -> "dear"
      [] s = "Hiring" -> "hiring"
      [] s = "Manager" -> "manager"
      [] s = "Sir" -> "sir"
      [] s = "Hi" -> "hi"
      [] s = "Jane" -> "jane"
      [] s = "JANE" -> "jane"
      [] s = "Smith" -> "smith"
      [] s = "SMITH" -> "smith"
      [] s = "Sincerely" -> "sincerely"
      [] s = "SINCERELY" -> "sincerely"
      [] s = "Best" -> "best"
      [] s = "Regards" -> "regards"
      [] s = "Jane@X.com" -> "jane@x.com"
      [] s = "Acme" -> "acme"
      [] s = "Company" -> "company"
      [] s = "Name" -> "name"
      [] s = "Thank" -> "thank"
      [] s = "PS" -> "ps"
      [] s = "Wolfeschlegelstein" -> "wolfeschlegelstein"
      [] s = "Sam" -> "sam"
      [] s = "Jones" -> "jones"
      [] s = "I" -> "i"
      [] OTHER -> s

\* String.prototype.toLowerCase.
ToLower(str) == [i \in 1..Len(str) |-> Lower(str[i])]

\* \s of the regular expressions, within one line.
IsWs(s) == s = " "

AllWs(str) == \A i \in 1..Len(str) : IsWs(str[i])

\* String.prototype.trim.
Trim(str) ==
    IF AllWs(str) THEN <<>>
    ELSE LET a == CHOOSE i \in 1..Len(str) :
                      ~IsWs(str[i]) /\ \A j \in 1..(i-1) : IsWs(str[j])
             b == CHOOSE i \in 1..Len(str) :
                      ~IsWs(str[i]) /\ \A j \in (i+1)..Len(str) : IsWs(str[j])
         IN SubSeq(str, a, b)

\* str.replace(/\s+/g, '').
StripWs(str) == SelectSeq(str, LAMBDA s : ~IsWs(s))

\* String.prototype.includes.
Includes(hay, needle) ==
    \E i \in 0..(Len(hay) - Len(needle)) :
        \A j \in 1..Len(needle) : hay[i + j] = needle[j]

\* String.prototype.endsWith, for a one-symbol suffix.
EndsWith(str, s) == Len(str) > 0 /\ str[Len(str)] = s

\* Array.prototype.join('\n'): the lines with a "\n" symbol between them.
RECURSIVE Join(_)
Join(lines) ==
    IF Len(lines) = 0 THEN <<>>
    ELSE IF Len(lines) = 1 THEN lines[1]
    ELSE lines[1] \o <<"\n">> \o Join(Tail(lines))

\* --------------------------------------------------- pattern matchers
\* Index of the first symbol at or after i that is not whitespace.
RECURSIVE SkipWs(_, _)
SkipWs(str, i) ==
    IF i <= Len(str) /\ IsWs(str[i]) THEN SkipWs(str, i + 1) ELSE i

Titles == {"sir", "madam", "mr.", "mrs.", "ms.", "dr."}

\* /^Dear\s+(Hiring\s+Manager|Sir|Madam|Mr\.|Mrs\.|Ms\.|Dr\.)[,\s]*$/i
MatchDearTitle(str) ==
    LET l == ToLower(str)
        n == Len(l)
        a == SkipWs(l, 2)
        RestOk(k) == \A j \in k..n : l[j] = "," \/ IsWs(l[j])
    IN /\ n >= 3
       /\ l[1] = "dear"
       /\ IsWs(l[2])
       /\ a <= n
       /\ \/ l[a] \in Titles /\ RestOk(a + 1)
          \/ /\ l[a] = "hiring"
             /\ a + 1 <= n
             /\ IsWs(l[a + 1])
             /\ LET b == SkipWs(l, a + 1)
                IN b <= n /\ l[b] = "manager" /\ RestOk(b + 1)

\* /^Dear\s+Hiring\s+Manager[,]?$/i
MatchDearHiringManager(str) ==
    LET l == ToLower(str)
        n == Len(l)
        a == SkipWs(l, 2)
    IN /\ n >= 5
       /\ l[1] = "dear"
       /\ IsWs(l[2])
       /\ a + 1 <= n
       /\ l[a] = "hiring"
       /\ IsWs(l[a + 1])
       /\ LET b == SkipWs(l, a + 1)
          IN /\ b <= n
             /\ l[b] = "manager"
             /\ \/ b = n
                \/ b + 1 = n /\ l[n] = ","

\* /^Hi\s+there[,]?$/i
MatchHiThere(str) ==
    LET l == ToLower(str)
        n == Len(l)
        a == SkipWs(l, 2)
    IN /\ n >= 3
       /\ l[1] = "hi"
       /\ IsWs(l[2])
       /\ a <= n
       /\ l[a] = "there"
       /\ \/ a = n
          \/ a + 1 = n /\ l[n] = ","

\* salutationPatterns.some(pattern => pattern.test(firstLine))
IsKnownSalutation(str) ==
    MatchDearTitle(str) \/ MatchDearHiringManager(str) \/ MatchHiThere(str)

\* firstLine.replace(/[,]?\s*$/, ':'): the leftmost match of an optional comma
\* followed by whitespace up to the end of the string is replaced.
ReplaceTail(str) ==
    LET n == Len(str)
        Hit(i) == \/ AllWs(SubSeq(str, i, n))
                  \/ i <= n /\ str[i] = "," /\ AllWs(SubSeq(str, i + 1, n))
        at == CHOOSE i \in 1..(n + 1) : Hit(i) /\ \A j \in 1..(i - 1) : ~Hit(j)
    IN SubSeq(str, 1, at - 1) \o <<":">>

ClosingWords ==
    { <<"sincerely">>, <<"best", " ", "regards">>, <<"regards">>,
      <<"yours", " ", "sincerely">>, <<"yours", " ", "truly">>,
      <<"respectfully">> }

\* /^(Sincerely|Best regards|Regards|Yours sincerely|Yours truly|Respectfully),?$/i
IsClosing(str) ==
    LET l == ToLower(str)
    IN \/ l \in ClosingWords
       \/ Len(l) >= 2 /\ l[Len(l)] = "," /\ SubSeq(l, 1, Len(l) - 1) \in ClosingWords

\* /^Dear\s+(.+?)[:,]?$/i, the layout pass's salutation test.
IsSalutationLine(str) ==
    LET l == ToLower(str)
    IN Len(l) >= 3 /\ l[1] = "dear" /\ IsWs(l[2])

\* /\[.*?\]/
HasPlaceholder(str) ==
    \E i \in 1..Len(str) : \E j \in (i + 1)..Len(str) : str[i] = "[" /\ str[j] = "]"

\* ------------------------------------------------------- page geometry
\* Units per millimetre.  Every increment of the code is a multiple of
\* 0.25 mm, and jsPDF's A4 page is 841.89 pt high at 72/25.4 pt per mm,
\* that is 297 + 1/12000 mm.
Scale == 12000

pageHeight == 297 * Scale + 1
\* 595.28 pt = 210.0016 mm; text widths are whole millimetres here.
pageWidth == 210

topMargin == 30 * Scale
leftMargin == 25
rightMargin == 25
bottomMargin == 25 * Scale
maxWidth == pageWidth - leftMargin - rightMargin

lineHeight(p) == IF p = "pdf" THEN 6 * Scale ELSE (11 * Scale) \div 2
paragraphSpacing(p) == IF p = "pdf" THEN 7 * Scale ELSE 6 * Scale

\* Signature envelope, in units.
sigMaxWidth == 100 * Scale
sigMaxHeight == 30 * Scale
sigMinWidth == 50 * Scale

\* ------------------------------------------------------- text measuring
\* doc.getTextWidth on one symbol, in mm.
SymWidth(s) ==
    CASE s \in {" "} -> 1
      [] s \in {",", ":", "[", "]", "5", "1", "2", "I"} -> 2
      [] s = "**" -> 4
      [] s \in {"lorem", "Wolfeschlegelstein"} -> 70
      [] s \in {"jane@x.com", "Jane@X.com"} -> 30
      [] s \in {"November 2, 2026", "November 3, 2026"} -> 35
      [] OTHER -> 12

RECURSIVE TextWidth(_)
TextWidth(str) ==
    IF Len(str) = 0 THEN 0 ELSE SymWidth(Head(str)) + TextWidth(Tail(str))

\* text.split(" ")
RECURSIVE SplitWords(_, _)
SplitWords(str, cur) ==
    IF Len(str) = 0 THEN <<cur>>
    ELSE IF Head(str) = " " THEN <<cur>> \o SplitWords(Tail(str), <<>>)
    ELSE SplitWords(Tail(str), Append(cur, Head(str)))

\* A word wider than the column is cut into pieces that fit.
RECURSIVE SplitLongWord(_, _, _)
SplitLongWord(word, cur, maxW) ==
    IF Len(word) = 0 THEN <<cur>>
    ELSE IF Len(cur) > 0 /\ TextWidth(cur) + SymWidth(Head(word)) > maxW
         THEN <<cur>> \o SplitLongWord(Tail(word), <<Head(word)>>, maxW)
    ELSE SplitLongWord(Tail(word), Append(cur, Head(word)), maxW)

RECURSIVE FitWords(_, _)
FitWords(words, maxW) ==
    IF Len(words) = 0 THEN <<>>
    ELSE (IF TextWidth(Head(words)) > maxW
          THEN SplitLongWord(Head(words), <<>>, maxW)
          ELSE <<Head(words)>>) \o FitWords(Tail(words), maxW)

\* Greedy filling: a word joins the current line while the line still fits.
RECURSIVE FillLines(_, _, _)
FillLines(words, cur, maxW) ==
    IF Len(words) = 0 THEN <<cur>>
    ELSE IF TextWidth(cur) + SymWidth(" ") + TextWidth(Head(words)) > maxW
         THEN <<cur>> \o FillLines(Tail(words), Head(words), maxW)
    ELSE FillLines(Tail(words), cur \o <<" ">> \o Head(words), maxW)

\* doc.splitTextToSize(line, maxWidth)
splitTextToSize(str, maxW) ==
    LET words == FitWords(SplitWords(str, <<>>), maxW)
    IN FillLines(Tail(words), Head(words), maxW)

\* ------------------------------------------------------ paragraphs
\* cleanedContent.split(/\n\s*\n/).filter(p => p.trim()), each paragraph then
\* paragraph.split('\n').map(l => l.trim()).filter(l => l): the maximal runs of
\* lines that are not blank, trimmed.
RECURSIVE ParagraphsFrom(_, _)
ParagraphsFrom(lines, cur) ==
    IF Len(lines) = 0 THEN (IF Len(cur) = 0 THEN <<>> ELSE <<cur>>)
    ELSE IF AllWs(Head(lines))
         THEN (IF Len(cur) = 0 THEN <<>> ELSE <<cur>>) \o ParagraphsFrom(Tail(lines), <<>>)
    ELSE ParagraphsFrom(Tail(lines), Append(cur, Trim(Head(lines))))

Paragraphs(lines) == ParagraphsFrom(lines, <<>>)

\* ------------------------------------------------------------- state
VARIABLES
    profile,    \* "pdf": generatePDF, "markdown": generateMarkdownPDF
    content,    \* argument: the body, as its lines
    options,    \* argument: fullName, email, phone, companyName, signature
    today,      \* environment: the clock's date, formatted
    imgReady,   \* environment: img.complete holds right after img.src is set
    pc,         \* position in the function
    y,          \* let y
    page,       \* the document's current (last) page
    draws,      \* the draw instructions issued so far, in order
    cleaned,    \* let cleanedContent, as its lines
    paragraphs, \* const paragraphs, each the list of its trimmed lines
    paraIndex,  \* paragraphs.forEach index (0-based)
    lineIdx,    \* lines.forEach index within the paragraph (0-based)
    onloadSet,  \* img.onload has been assigned
    saved,      \* doc.save has been called
    inv,        \* number of the current invocation
    firstDoc,   \* what the first invocation had drawn when it saved
    firstEnv,   \* the clock date and image state the first invocation ran under
    templates,        \* templates slice: state.templates
    activeTemplateId, \* templates slice: state.activeTemplateId
    storage,    \* localStorage's item under STORAGE_KEY
    returned,   \* what the last call of a local-storage function gave its caller
    lastSaved   \* history: the record of the last save that took effect and was not cleared

\* The variables of the document formatter, of the templates slice and of the
\* defaults store.
pdfVars == <<profile, content, options, today, imgReady, pc, y, page, draws,
             cleaned, paragraphs, paraIndex, lineIdx, onloadSet, saved, inv,
             firstDoc, firstEnv>>
sliceVars == <<templates, activeTemplateId>>
storageVars == <<storage, returned, lastSaved>>

vars == <<pdfVars, sliceVars, storageVars>>

\* ------------------------------------------------------------ inputs
NameJane == <<"Jane", " ", "Smith">>
NameLong == <<"Wolfeschlegelstein", " ", "Wolfeschlegelstein", " ", "Wolfeschlegelstein">>
EmailJane == <<"jane@x.com">>
PhoneJane == <<"5", "5", "5", " ", "1", "2">>
CompanyAcme == <<"Acme">>

NoSig == [present |-> FALSE, natW |-> 0, natH |-> 0, embeds |-> FALSE]
\* A signature-pad bitmap, a tall bitmap, and data that is no image.
SigPad == [present |-> TRUE, natW |-> 800, natH |-> 200, embeds |-> TRUE]
SigTall == [present |-> TRUE, natW |-> 300, natH |-> 200, embeds |-> TRUE]
SigBad == [present |-> TRUE, natW |-> 0, natH |-> 0, embeds |-> FALSE]

Senders ==
    { [fullName |-> <<>>, email |-> <<>>, phone |-> <<>>],
      [fullName |-> NameLong, email |-> <<>>, phone |-> <<>>],
      [fullName |-> NameJane, email |-> <<>>, phone |-> <<>>],
      [fullName |-> NameJane, email |-> EmailJane, phone |-> PhoneJane],
      [fullName |-> <<>>, email |-> EmailJane, phone |-> PhoneJane] }

Options(sender, company, sig) ==
    [fullName |-> sender.fullName, email |-> sender.email, phone |-> sender.phone,
     companyName |-> company, signature |-> sig]

\* First lines of a letter; <<>> stands for a letter that opens with its text.
FirstLines ==
    { <<>>,
      <<"Dear", " ", "Hiring", " ", "Manager", ",">>,
      <<"Dear", " ", "Hiring", " ", "Manager", ":">>,
      <<"Hi", " ", "there">>,
      <<" ", "DEAR", " ", "Sir", " ", ",", ",">>,
      <<"Dear", " ", "Sam", " ", "Jones", ",">> }

MidLines ==
    { <<"Thank", " ", "you">>,
      <<"I", " ", "am", " ", "Jane", " ", "Smith">>,
      <<"lorem", " ", "lorem", " ", "[", "Company", " ", "Name", "]">> }

AfterLines ==
    { <<>>,
      <<NameJane>>,
      <<<<" ", "JANE", " ", "SMITH", " ">>>>,
      <<NameJane, <<"Jane@X.com">>>>,
      <<NameJane, <<"5", "5", "5", "1", "2">>>>,
      <<<<"PS", " ", "lorem">>>>,
      <<NameJane, <<"PS", " ", "lorem">>>>,
      <<<<"5">>>>,
      <<<<>>, NameJane, <<"Regards">>>> }

Blank(n) == [i \in 1..n |-> <<>>]
Filler(n) == [i \in 1..n |-> <<"lorem">>]

\* lead blank lines, a first line, a paragraph, a closing and what follows it
Letter(lead, first, mid, fill, closing, after) ==
    Blank(lead)
    \o (IF first = <<>> THEN <<>> ELSE <<first, <<>>>>)
    \o <<mid>> \o Filler(fill)
    \o (IF closing = <<>> THEN <<>> ELSE <<<<>>, closing>> \o after)

\* Short letters in every wording.
TextCases ==
    { [profile |-> p,
       content |-> Letter(lead, first, mid, 0, cl.closing, cl.after),
       options |-> Options(sender, company, NoSig),
       imgReady |-> FALSE] :
        p \in {"pdf", "markdown"}, lead \in 0..1, first \in FirstLines,
        mid \in MidLines, sender \in Senders, company \in {<<>>, CompanyAcme},
        cl \in {[closing |-> <<>>, after |-> <<>>]}
               \cup [closing : {<<"Sincerely", ",">>}, after : AfterLines]
               \cup [closing : {<<"best", " ", "regards">>}, after : {<<>>, <<NameJane>>}] }

\* Letters of every length in one wording, with every kind of signature.
LayoutCases ==
    { [profile |-> p,
       content |-> Letter(0, <<"Dear", " ", "Hiring", " ", "Manager", ",">>,
                          <<"Thank", " ", "you">>, fill, <<"Sincerely", ",">>, <<>>),
       options |-> Options([fullName |-> NameJane, email |-> EmailJane, phone |-> <<>>],
                           company, sg.sig),
       imgReady |-> sg.ready] :
        p \in {"pdf", "markdown"}, fill \in 0..MaxFill, company \in {<<>>, CompanyAcme},
        sg \in {[sig |-> NoSig, ready |-> FALSE], [sig |-> SigBad, ready |-> FALSE]}
               \cup [sig : {SigPad, SigTall}, ready : BOOLEAN] }

\* Most one-line paragraphs of a letter.
MaxParas == 40

\* n paragraphs of one short line each, a blank line between them.
OneLineParagraphs(n) ==
    [i \in 1..(2 * n - 1) |-> IF i % 2 = 1 THEN <<"lorem">> ELSE <<>>]

\* Bodies of every number of paragraphs, with and without a sender header.
ParagraphCases ==
    { [profile |-> p,
       content |-> OneLineParagraphs(n),
       options |-> Options(sender, <<>>, NoSig),
       imgReady |-> FALSE] :
        p \in {"pdf", "markdown"}, n \in 1..MaxParas,
        sender \in {[fullName |-> <<>>, email |-> <<>>, phone |-> <<>>],
                    [fullName |-> NameJane, email |-> EmailJane, phone |-> <<>>]} }

\* Letters sent with a signature image that call for no signature block: the
\* body names the sender, the letter has no closing, or no name is supplied.
UnsignedCases ==
    { [profile |-> p,
       content |-> Letter(0, <<>>, lt.mid, 0, lt.closing, <<>>),
       options |-> Options(lt.sender, <<>>, sg.sig),
       imgReady |-> sg.ready] :
        p \in {"pdf", "markdown"},
        lt \in { [mid |-> <<"I", " ", "am", " ", "Jane", " ", "Smith">>,
                  closing |-> <<"Sincerely", ",">>,
                  sender |-> [fullName |-> NameJane, email |-> <<>>, phone |-> <<>>]],
                 [mid |-> <<"Thank", " ", "you">>,
                  closing |-> <<>>,
                  sender |-> [fullName |-> NameJane, email |-> <<>>, phone |-> <<>>]],
                 [mid |-> <<"Thank", " ", "you">>,
                  closing |-> <<"Sincerely", ",">>,
                  sender |-> [fullName |-> <<>>, email |-> EmailJane, phone |-> <<>>]] },
        sg \in { [sig |-> SigPad, ready |-> TRUE], [sig |-> SigPad, ready |-> FALSE],
                 [sig |-> SigBad, ready |-> FALSE] } }

Inputs == TextCases \cup LayoutCases \cup ParagraphCases \cup UnsignedCases

\* ------------------------------------------------------- the drawing sink
\* doc.text(txt, leftMargin, yy) with the font and colour set before it.
TextDraw(pg, yy, txt, col, isBold) ==
    [kind |-> "text", page |-> pg, y |-> yy, text |-> txt, w |-> TextWidth(txt),
     h |-> 0, color |-> col, bold |-> isBold, late |-> FALSE]

\* doc.addImage(signatureData, 'PNG', leftMargin, yy, width, height)
ImageDraw(pg, yy, width, height, afterSave) ==
    [kind |-> "image", page |-> pg, y |-> yy, text |-> <<>>, w |-> width,
     h |-> height, color |-> 0, bold |-> FALSE, late |-> afterSave]

\* A string is truthy when it is not empty.
Truthy(str) == Len(str) > 0

\* ====================================================== templates slice
\* A template is modelled by its id, its name and its updatedAt; its content,
\* variables and createdAt are carried along untouched by every reducer.
\* string | null: <<>> is null and <<id>> is the string id.
Null == <<>>

\* Most templates the list holds while addTemplate is still dispatched.
MaxTemplates == 13

\* The ids and names of initialState.templates, in their order.
InitialTemplateNames ==
    << <<"regular", "Regular Job Application">>,
       <<"regular-with-resume", "Regular Job Application (with Resume)">>,
       <<"upwork", "Upwork Proposal">>,
       <<"follow-up", "Follow-up After Application">>,
       <<"thank-you-interview", "Thank You After Interview">>,
       <<"referral", "Referral-Based Application">>,
       <<"cold-outreach", "Cold Outreach">>,
       <<"career-change", "Career Change Application">>,
       <<"internship", "Internship Application">>,
       <<"freelance-contract", "Freelance/Contract Work">>,
       <<"re-application", "Re-application">>,
       <<"networking", "Networking/Informational Interview Request">> >>

\* const initialState, built at the time now.
initialState(now) ==
    [templates |-> [i \in 1..Len(InitialTemplateNames) |->
                       [id |-> InitialTemplateNames[i][1],
                        name |-> InitialTemplateNames[i][2],
                        updatedAt |-> now]],
     activeTemplateId |-> <<"regular">>]

\* state.templates.push(action.payload)
addTemplate(state, payload) ==
    [state EXCEPT !.templates = Append(@, payload)]

\* Array.prototype.findIndex on the id, 0 for JavaScript's -1.
FindIndex(ts, id) ==
    IF \E i \in 1..Len(ts) : ts[i].id = id
    THEN CHOOSE i \in 1..Len(ts) : ts[i].id = id /\ \A j \in 1..(i - 1) : ts[j].id # id
    ELSE 0

\* { ...old, ...partial }: the fields of partial win.
Spread(old, partial) ==
    [k \in DOMAIN old \cup DOMAIN partial |->
        IF k \in DOMAIN partial THEN partial[k] ELSE old[k]]

updateTemplate(state, payload, now) ==
    LET index == FindIndex(state.templates, payload.id)
    IN IF index # 0
       THEN [state EXCEPT !.templates[index] =
                [Spread(@, payload.template) EXCEPT !.updatedAt = now]]
       ELSE state

\* Mutant: the active template is kept whatever is removed.
removeTemplateKeepsActive(state, id) ==
    [state EXCEPT !.templates = SelectSeq(@, LAMBDA t : t.id # id)]

removeTemplate(state, id) ==
    LET rest == SelectSeq(state.templates, LAMBDA t : t.id # id)
    IN [templates |-> rest,
        activeTemplateId |->
            IF state.activeTemplateId = <<id>>
            THEN (IF Len(rest) > 0 THEN <<rest[1].id>> ELSE Null)
            ELSE state.activeTemplateId]

setActiveTemplate(state, id) ==
    [state EXCEPT !.activeTemplateId = <<id>>]

\* The slice's state as one record.
SliceState == [templates |-> templates, activeTemplateId |-> activeTemplateId]

\* Payloads the application dispatches.
NewTemplates ==
    { [id |-> "custom", name |-> "My Letter", updatedAt |-> "November 2, 2026"] }
UpdatedIds == {"regular", "custom"}
Partials == { [name |-> "Renamed"], [id |-> "custom"] }
RemovedIds == {"regular", "regular-with-resume", "custom"}
InitialIds == {InitialTemplateNames[i][1] : i \in 1..Len(InitialTemplateNames)}
ActivatedIds == {"regular", "networking", "custom", "missing"}

DispatchAddTemplate ==
    /\ Len(templates) < MaxTemplates
    /\ \E payload \in NewTemplates :
        LET s == addTemplate(SliceState, payload)
        IN /\ templates' = s.templates
           /\ activeTemplateId' = s.activeTemplateId
    /\ UNCHANGED <<pdfVars, storageVars>>

DispatchUpdateTemplate ==
    /\ \E id \in UpdatedIds, partial \in Partials :
        LET s == updateTemplate(SliceState, [id |-> id, template |-> partial], today)
        IN /\ templates' = s.templates
           /\ activeTemplateId' = s.activeTemplateId
    /\ UNCHANGED <<pdfVars, storageVars>>

\* The store's step for removeTemplate(id).
RemoveTemplateStep(id) ==
    LET s == removeTemplate(SliceState, id)
    IN /\ templates' = s.templates
       /\ activeTemplateId' = s.activeTemplateId

DispatchRemoveTemplate ==
    /\ \E id \in RemovedIds : RemoveTemplateStep(id)
    /\ UNCHANGED <<pdfVars, storageVars>>

\* removeTemplate on any of the templates the application starts with.
DispatchRemoveInitialTemplate ==
    /\ \E id \in InitialIds : RemoveTemplateStep(id)
    /\ UNCHANGED <<pdfVars, storageVars>>

DispatchSetActiveTemplate ==
    /\ \E id \in ActivatedIds :
        LET s == setActiveTemplate(SliceState, id)
        IN /\ templates' = s.templates
           /\ activeTemplateId' = s.activeTemplateId
    /\ UNCHANGED <<pdfVars, storageVars>>

SliceInit ==
    /\ templates = initialState("November 2, 2026").templates
    /\ activeTemplateId = initialState("November 2, 2026").activeTemplateId

\* ======================================================= defaults store
\* A stored text is a string, a sequence of symbols like every other string
\* here; the quote and the backslash are the symbols "\"" and "\\".
\* JSON texts ----------------------------------------------------------
\* Mutant: a string is written between quotes as it is.
QuoteNoEscape(str) == <<"\"">> \o str \o <<"\"">>

\* JSON.stringify of a string: quote and backslash get a backslash in front.
RECURSIVE Escape(_)
Escape(str) ==
    IF Len(str) = 0 THEN <<>>
    ELSE (IF Head(str) \in {"\"", "\\"} THEN <<"\\", Head(str)>> ELSE <<Head(str)>>)
         \o Escape(Tail(str))

Quote(str) == <<"\"">> \o Escape(str) \o <<"\"">>

DefaultsKeys == <<"fullName", "email", "phone", "techStack">>

\* JSON.stringify of a DefaultsConfig, its properties in the interface's order.
RECURSIVE StringifyMembers(_, _)
StringifyMembers(obj, keys) ==
    IF Len(keys) = 0 THEN <<>>
    ELSE Quote(<<Head(keys)>>) \o <<":">> \o Quote(obj[Head(keys)])
         \o (IF Len(keys) > 1 THEN <<",">> ELSE <<>>)
         \o StringifyMembers(obj, Tail(keys))

JSONstringify(obj) == <<"{">> \o StringifyMembers(obj, DefaultsKeys) \o <<"}">>

\* A JSON string read from position i of text: [ok, value, next].
RECURSIVE ParseChars(_, _, _)
ParseChars(text, i, acc) ==
    IF i > Len(text) THEN [ok |-> FALSE, value |-> acc, next |-> i]
    ELSE IF text[i] = "\"" THEN [ok |-> TRUE, value |-> acc, next |-> i + 1]
    ELSE IF text[i] = "\\"
         THEN (IF i + 1 <= Len(text) /\ text[i + 1] \in {"\"", "\\"}
               THEN ParseChars(text, i + 2, Append(acc, text[i + 1]))
               ELSE [ok |-> FALSE, value |-> acc, next |-> i])
    ELSE ParseChars(text, i + 1, Append(acc, text[i]))

ParseString(text, i) ==
    IF i <= Len(text) /\ text[i] = "\""
    THEN ParseChars(text, i + 1, <<>>)
    ELSE [ok |-> FALSE, value |-> <<>>, next |-> i]

\* The members of an object from position i, which follows "{" or ",":
\* [ok, pairs, next].  A key is one symbol in every text used here.
RECURSIVE ParseMembers(_, _, _)
ParseMembers(text, i, pairs) ==
    LET k == ParseString(text, i)
        v == ParseString(text, k.next + 1)
        more == Append(pairs, <<k.value[1], v.value>>)
        bad == [ok |-> FALSE, pairs |-> pairs, next |-> i]
    IN IF ~k.ok \/ Len(k.value) # 1 THEN bad
       ELSE IF k.next > Len(text) \/ text[k.next] # ":" THEN bad
       ELSE IF ~v.ok \/ v.next > Len(text) THEN bad
       ELSE IF text[v.next] = "}" THEN [ok |-> TRUE, pairs |-> more, next |-> v.next + 1]
       ELSE IF text[v.next] = "," THEN ParseMembers(text, v.next + 1, more)
       ELSE bad

\* The object of a list of members; a key given twice keeps its last value.
ObjectOf(pairs) ==
    [k \in {pairs[i][1] : i \in 1..Len(pairs)} |->
        LET last == CHOOSE i \in 1..Len(pairs) :
                        pairs[i][1] = k /\ \A j \in (i + 1)..Len(pairs) : pairs[j][1] # k
        IN pairs[last][2]]

EmptyObject == [k \in {} |-> <<>>]

\* JSON.parse on the texts used here: an object of string members, or null;
\* ok is FALSE where JSON.parse throws a SyntaxError.
JSONparse(text) ==
    LET m == ParseMembers(text, 2, <<>>)
    IN IF text = <<"null">> THEN [ok |-> TRUE, kind |-> "null", value |-> EmptyObject]
       ELSE IF text = <<"{", "}">> THEN [ok |-> TRUE, kind |-> "object", value |-> EmptyObject]
       ELSE IF Len(text) >= 2 /\ text[1] = "{" /\ m.ok /\ m.next = Len(text) + 1
            THEN [ok |-> TRUE, kind |-> "object", value |-> ObjectOf(m.pairs)]
       ELSE [ok |-> FALSE, kind |-> "throw", value |-> EmptyObject]

\* local-storage.ts ------------------------------------------------------
EmptyDefaults == [fullName |-> <<>>, email |-> <<>>, phone |-> <<>>, techStack |-> <<>>]

\* localStorage's item under STORAGE_KEY; getItem gives null when it is absent.
NoItem == [present |-> FALSE, text |-> <<>>]
Item(text) == [present |-> TRUE, text |-> text]

\* Mutant: loadDefaults without its try and catch.
loadDefaultsNoCatch(item, getItemThrows) ==
    LET parsed == JSONparse(item.text)
    IN IF getItemThrows \/ (item.present /\ Truthy(item.text) /\ ~parsed.ok)
       THEN [threw |-> TRUE, kind |-> "throw", value |-> EmptyObject]
       ELSE IF item.present /\ Truthy(item.text)
            THEN [threw |-> FALSE, kind |-> parsed.kind, value |-> parsed.value]
       ELSE [threw |-> FALSE, kind |-> "object", value |-> EmptyDefaults]

\* loadDefaults(): the try block returns what JSON.parse gives; when it throws
\* the catch block logs, and like a null or empty item it falls through to
\* the final return.
loadDefaults(item, getItemThrows) ==
    LET parsed == JSONparse(item.text)
        tryReturns == ~getItemThrows /\ item.present /\ Truthy(item.text) /\ parsed.ok
    IN IF tryReturns
       THEN [threw |-> FALSE, kind |-> parsed.kind, value |-> parsed.value]
       ELSE [threw |-> FALSE, kind |-> "object", value |-> EmptyDefaults]

\* saveDefaults(defaults): a setItem that throws has stored nothing.
saveDefaults(item, defaults, setItemThrows) ==
    [storage |-> IF setItemThrows THEN item ELSE Item(JSONstringify(defaults)),
     threw |-> FALSE]

\* clearDefaults(): a removeItem that throws has removed nothing.
clearDefaults(item, removeItemThrows) ==
    [storage |-> IF removeItemThrows THEN item ELSE NoItem,
     threw |-> FALSE]

\* Records the application saves: empty fields, and values with a quote and
\* with a backslash in them.
DefaultsInputs ==
    [fullName : {<<>>, <<"Jane", " ", "\"", "JJ", "\"", " ", "Smith">>},
     email : {<<>>, EmailJane},
     phone : {<<>>, PhoneJane},
     techStack : {<<>>, <<"C", ":", "\\", "x">>, <<"Go", ",", " ", "TLA">>}]

\* What the browser may hold under the key when the page loads: nothing, the
\* empty string, text that is no JSON, the JSON null, or an earlier save.
StorageStates ==
    {NoItem, Item(<<>>), Item(<<"{", "\"", "fullName">>), Item(<<"null">>)}
    \cup {Item(JSONstringify(d)) : d \in DefaultsInputs}

\* What a call gave back: failed says that its storage operation threw, threw
\* that an exception left the function.
Outcome(call, failed, threw, kind, value) ==
    [call |-> call, failed |-> failed, threw |-> threw, kind |-> kind, value |-> value]

CallLoadDefaults ==
    /\ \E getItemThrows \in BOOLEAN :
        LET r == loadDefaults(storage, getItemThrows)
        IN returned' = Outcome("loadDefaults", getItemThrows, r.threw, r.kind, r.value)
    /\ UNCHANGED <<storage, lastSaved>>
    /\ UNCHANGED <<pdfVars, sliceVars>>

CallSaveDefaults ==
    /\ \E defaults \in DefaultsInputs, setItemThrows \in BOOLEAN :
        LET r == saveDefaults(storage, defaults, setItemThrows)
        IN /\ storage' = r.storage
           /\ returned' = Outcome("saveDefaults", setItemThrows, r.threw, "void", EmptyObject)
           /\ lastSaved' = IF setItemThrows THEN lastSaved
                           ELSE [some |-> TRUE, value |-> defaults]
    /\ UNCHANGED <<pdfVars, sliceVars>>

CallClearDefaults ==
    /\ \E removeItemThrows \in BOOLEAN :
        LET r == clearDefaults(storage, removeItemThrows)
        IN /\ storage' = r.storage
           /\ returned' = Outcome("clearDefaults", removeItemThrows, r.threw, "void", EmptyObject)
           /\ lastSaved' = IF removeItemThrows THEN lastSaved
                           ELSE [some |-> FALSE, value |-> EmptyDefaults]
    /\ UNCHANGED <<pdfVars, sliceVars>>

DefaultsInit(items) ==
    /\ storage \in items
    /\ returned = Outcome("none", FALSE, FALSE, "void", EmptyObject)
    /\ lastSaved = [some |-> FALSE, value |-> EmptyDefaults]

\* ====================================================== the formatter
\* Mutant: the cursor is kept from one invocation to the next.
StartYKeepsCursor(prevY) == prevY

\* let y = topMargin, at the start of every invocation; prevY is the
\* cursor the previous invocation left behind.
StartY(prevY) == topMargin

InitFrom(inputs) ==
    /\ \E in \in inputs :
        /\ profile = in.profile
        /\ content = in.content
        /\ options = in.options
        /\ imgReady = in.imgReady
    /\ today = "November 2, 2026"
    /\ pc = "sender"
    /\ y = StartY(topMargin)
    /\ page = 1
    /\ draws = <<>>
    /\ cleaned = content
    /\ paragraphs = <<>>
    /\ paraIndex = 0
    /\ lineIdx = 0
    /\ onloadSet = FALSE
    /\ saved = FALSE
    /\ inv = 1
    /\ firstDoc = <<>>
    /\ firstEnv = [today |-> today, ready |-> imgReady]

\* ------------------------------------------------------- header blocks
\* if (options.fullName || options.email || options.phone) { ... }
SenderLayout(p, opts, y0) ==
    LET lh == lineHeight(p)
        nameText == IF p = "pdf" THEN opts.fullName
                    ELSE <<"**">> \o opts.fullName \o <<"**">>
        d1 == IF Truthy(opts.fullName)
              THEN <<TextDraw(1, y0, nameText, 30, TRUE)>> ELSE <<>>
        y1 == IF Truthy(opts.fullName) THEN y0 + lh + (3 * Scale) \div 2 ELSE y0
        d2 == IF Truthy(opts.email)
              THEN <<TextDraw(1, y1, opts.email, 70, FALSE)>> ELSE <<>>
        y2 == IF Truthy(opts.email) THEN y1 + lh - Scale \div 2 ELSE y1
        d3 == IF Truthy(opts.phone)
              THEN <<TextDraw(1, y2, opts.phone, 70, FALSE)>> ELSE <<>>
        y3 == IF Truthy(opts.phone) THEN y2 + lh - Scale \div 2 ELSE y2
    IN IF Truthy(opts.fullName) \/ Truthy(opts.email) \/ Truthy(opts.phone)
       THEN [y |-> y3 + paragraphSpacing(p) + 3 * Scale, draws |-> d1 \o d2 \o d3]
       ELSE [y |-> y0, draws |-> <<>>]

SenderBlock ==
    /\ pc = "sender"
    /\ LET r == SenderLayout(profile, options, y)
       IN /\ y' = r.y
          /\ draws' = draws \o r.draws
    /\ pc' = "date"
    /\ UNCHANGED <<profile, content, options, today, imgReady, page, cleaned,
                   paragraphs, paraIndex, lineIdx, onloadSet, saved, inv, firstDoc, firstEnv>>
    /\ UNCHANGED <<sliceVars, storageVars>>

\* doc.text(dateStr, leftMargin, y); y += paragraphSpacing + 5
DateLayout(p, date, y0) ==
    [y |-> y0 + paragraphSpacing(p) + 5 * Scale,
     draws |-> <<TextDraw(1, y0, <<date>>, 40, FALSE)>>]

DateBlock ==
    /\ pc = "date"
    /\ LET r == DateLayout(profile, today, y)
       IN /\ y' = r.y
          /\ draws' = draws \o r.draws
    /\ pc' = "recipient"
    /\ UNCHANGED <<profile, content, options, today, imgReady, page, cleaned,
                   paragraphs, paraIndex, lineIdx, onloadSet, saved, inv, firstDoc, firstEnv>>
    /\ UNCHANGED <<sliceVars, storageVars>>

\* Mutant: generatePDF without its else branch, as generateMarkdownPDF is.
RecipientLayoutNoElse(p, opts, y0) ==
    IF Truthy(opts.companyName)
    THEN [y |-> y0 + paragraphSpacing(p) + 5 * Scale,
          draws |-> <<TextDraw(1, y0, opts.companyName, 40, FALSE)>>]
    ELSE [y |-> y0, draws |-> <<>>]

\* if (options.companyName) { ... } and, in generatePDF only, else y += paragraphSpacing
RecipientLayout(p, opts, y0) ==
    IF Truthy(opts.companyName)
    THEN [y |-> y0 + paragraphSpacing(p) + 5 * Scale,
          draws |-> <<TextDraw(1, y0, opts.companyName, 40, FALSE)>>]
    ELSE [y |-> IF p = "pdf" THEN y0 + paragraphSpacing(p) ELSE y0, draws |-> <<>>]

RecipientBlock ==
    /\ pc = "recipient"
    /\ LET r == RecipientLayout(profile, options, y)
       IN /\ y' = r.y
          /\ draws' = draws \o r.draws
    /\ pc' = "salutation"
    /\ UNCHANGED <<profile, content, options, today, imgReady, page, cleaned,
                   paragraphs, paraIndex, lineIdx, onloadSet, saved, inv, firstDoc, firstEnv>>
    /\ UNCHANGED <<sliceVars, storageVars>>

\* ------------------------------------------------- content normalization
SynthSalutation == <<"Dear", " ", "Hiring", " ", "Manager", ":">>

\* The salutation step on cleanedContent.split('\n').
FixSalutation(lines, opts) ==
    LET firstLine == Trim(lines[1])
    IN IF Len(lines) = 0 THEN lines
       ELSE IF IsKnownSalutation(firstLine)
       THEN (IF ~EndsWith(firstLine, ":")
             THEN [lines EXCEPT ![1] = ReplaceTail(firstLine)]
             ELSE lines)
       ELSE IF Truthy(opts.companyName)
            THEN <<SynthSalutation, <<>>>> \o lines
       ELSE lines

NormalizeSalutation ==
    /\ pc = "salutation"
    /\ cleaned' = FixSalutation(cleaned, options)
    /\ pc' = "dedup"
    /\ UNCHANGED <<profile, content, options, today, imgReady, y, page, draws,
                   paragraphs, paraIndex, lineIdx, onloadSet, saved, inv, firstDoc, firstEnv>>
    /\ UNCHANGED <<sliceVars, storageVars>>

\* Index of the first line that is a closing, 0 when there is none.
ClosingIndex(lines) ==
    IF \E i \in 1..Len(lines) : IsClosing(Trim(lines[i]))
    THEN CHOOSE i \in 1..Len(lines) :
             IsClosing(Trim(lines[i])) /\ \A j \in 1..(i - 1) : ~IsClosing(Trim(lines[j]))
    ELSE 0

MatchesName(trimmedLower, opts) ==
    Truthy(opts.fullName)
    /\ (trimmedLower = ToLower(opts.fullName)
        \/ Includes(trimmedLower, ToLower(opts.fullName)))

MatchesEmail(trimmedLower, opts) ==
    Truthy(opts.email)
    /\ (trimmedLower = ToLower(opts.email)
        \/ Includes(trimmedLower, ToLower(opts.email)))

MatchesPhone(trimmedLower, opts) ==
    Truthy(opts.phone)
    /\ LET phoneLower == StripWs(ToLower(opts.phone))
           trimmedPhone == StripWs(trimmedLower)
       IN \/ trimmedPhone = phoneLower
          \/ Includes(trimmedPhone, phoneLower)
          \/ Includes(phoneLower, trimmedPhone)

\* Mutant: the email is compared without lowering the line's case.
KeepAfterClosingCaseSensitive(line, opts) ==
    LET trimmed == Trim(line)
        trimmedLower == ToLower(trimmed)
    IN /\ Truthy(trimmed)
       /\ ~MatchesName(trimmedLower, opts)
       /\ ~MatchesEmail(trimmed, opts)
       /\ ~MatchesPhone(trimmedLower, opts)

\* The callback of afterClosing.filter: TRUE keeps the line.
KeepAfterClosing(line, opts) ==
    LET trimmed == Trim(line)
        trimmedLower == ToLower(trimmed)
    IN /\ Truthy(trimmed)
       /\ ~MatchesName(trimmedLower, opts)
       /\ ~MatchesEmail(trimmedLower, opts)
       /\ ~MatchesPhone(trimmedLower, opts)

\* The contact-information step on cleanedContent.split('\n').
RemoveContactInfo(lines, opts) ==
    IF Truthy(opts.fullName) \/ Truthy(opts.email) \/ Truthy(opts.phone)
    THEN LET closingIndex == ClosingIndex(lines)
         IN IF closingIndex >= 1
            THEN SubSeq(lines, 1, closingIndex)
                 \o SelectSeq(SubSeq(lines, closingIndex + 1, Len(lines)),
                              LAMBDA l : KeepAfterClosing(l, opts))
            ELSE lines
    ELSE lines

\* The contact-information step, then const paragraphs = ...
DedupContact ==
    /\ pc = "dedup"
    /\ cleaned' = RemoveContactInfo(cleaned, options)
    /\ paragraphs' = Paragraphs(cleaned')
    /\ pc' = "layout"
    /\ UNCHANGED <<profile, content, options, today, imgReady, y, page, draws,
                   paraIndex, lineIdx, onloadSet, saved, inv, firstDoc, firstEnv>>
    /\ UNCHANGED <<sliceVars, storageVars>>

\* ------------------------------------------------------------ body layout
\* Font weight and colour of one wrapped line, as set just before doc.text.
LineStyle(p, wrappedLine, lineIndex, isSal, isClose) ==
    IF HasPlaceholder(wrappedLine) THEN [color |-> 100, bold |-> FALSE]
    ELSE IF p = "markdown" /\ ((isSal /\ lineIndex = 0) \/ isClose)
         THEN [color |-> 30, bold |-> TRUE]
    ELSE [color |-> 20, bold |-> FALSE]

\* Mutant: a new page is added but the cursor stays where it was.
RECURSIVE DrawWrappedKeepsCursor(_, _, _, _, _, _)
DrawWrappedKeepsCursor(st, wrappedLines, lineIndex, isSal, isClose, p) ==
    IF Len(wrappedLines) = 0 THEN st
    ELSE LET brk == st.y + lineHeight(p) > pageHeight - bottomMargin
             pg == IF brk THEN st.page + 1 ELSE st.page
             sty == LineStyle(p, Head(wrappedLines), lineIndex, isSal, isClose)
             d == TextDraw(pg, st.y, Head(wrappedLines), sty.color, sty.bold)
         IN DrawWrappedKeepsCursor([y |-> st.y + lineHeight(p), page |-> pg,
                                    draws |-> Append(st.draws, d)],
                                   Tail(wrappedLines), lineIndex + 1, isSal, isClose, p)

\* wrappedLines.forEach: st is [y, page, draws].
RECURSIVE DrawWrapped(_, _, _, _, _, _)
DrawWrapped(st, wrappedLines, lineIndex, isSal, isClose, p) ==
    IF Len(wrappedLines) = 0 THEN st
    ELSE LET brk == st.y + lineHeight(p) > pageHeight - bottomMargin
             pg == IF brk THEN st.page + 1 ELSE st.page
             yy == IF brk THEN topMargin ELSE st.y
             sty == LineStyle(p, Head(wrappedLines), lineIndex, isSal, isClose)
             d == TextDraw(pg, yy, Head(wrappedLines), sty.color, sty.bold)
         IN DrawWrapped([y |-> yy + lineHeight(p), page |-> pg,
                         draws |-> Append(st.draws, d)],
                        Tail(wrappedLines), lineIndex + 1, isSal, isClose, p)

\* The callback of lines.forEach for one line of a paragraph.
LayoutLine(st, line, pIdx, p) ==
    LET isSal == IsSalutationLine(line)
        isClose == IsClosing(line)
        y1 == st.y
              + (IF isSal /\ pIdx = 0 THEN paragraphSpacing(p) \div 2 ELSE 0)
              + (IF isClose THEN paragraphSpacing(p) + 2 * Scale ELSE 0)
        r == DrawWrapped([st EXCEPT !.y = y1], splitTextToSize(line, maxWidth),
                         0, isSal, isClose, p)
    IN IF isClose THEN [r EXCEPT !.y = r.y + (5 * lineHeight(p)) \div 2] ELSE r

\* The spacing after a paragraph, except after the last one.
ParagraphGap(pIdx, nParas, p) ==
    IF pIdx < nParas - 1 THEN paragraphSpacing(p) + Scale ELSE 0

\* One turn of lines.forEach; after the paragraph's last line the rest of the
\* paragraphs.forEach callback runs too.
LayoutBody ==
    /\ pc = "layout"
    /\ paraIndex < Len(paragraphs)
    /\ LET para == paragraphs[paraIndex + 1]
           last == lineIdx + 1 = Len(para)
           r == LayoutLine([y |-> y, page |-> page, draws |-> draws],
                           para[lineIdx + 1], paraIndex, profile)
       IN /\ y' = r.y + (IF last THEN ParagraphGap(paraIndex, Len(paragraphs), profile)
                         ELSE 0)
          /\ page' = r.page
          /\ draws' = r.draws
          /\ paraIndex' = IF last THEN paraIndex + 1 ELSE paraIndex
          /\ lineIdx' = IF last THEN 0 ELSE lineIdx + 1
    /\ UNCHANGED <<profile, content, options, today, imgReady, pc, cleaned,
                   paragraphs, onloadSet, saved, inv, firstDoc, firstEnv>>
    /\ UNCHANGED <<sliceVars, storageVars>>

LayoutEnd ==
    /\ pc = "layout"
    /\ paraIndex = Len(paragraphs)
    /\ pc' = "signature"
    /\ UNCHANGED <<profile, content, options, today, imgReady, y, page, draws,
                   cleaned, paragraphs, paraIndex, lineIdx, onloadSet, saved, inv,
                   firstDoc, firstEnv>>
    /\ UNCHANGED <<sliceVars, storageVars>>

\* ------------------------------------------------------ signature block
\* cleanedContentLower.includes(nameLower), false for an empty name
HasNameInContent(lines, opts) ==
    Truthy(opts.fullName) /\ Includes(ToLower(Join(lines)), ToLower(opts.fullName))

\* The last line that is not blank, trimmed; '' when there is none.
LastLine(lines) ==
    LET kept == SelectSeq(lines, LAMBDA l : Truthy(Trim(l)))
    IN IF Len(kept) = 0 THEN <<>> ELSE Trim(kept[Len(kept)])

HasClosing(lines) == IsClosing(LastLine(lines))

\* Mutant: the block is appended although the content has the name in it.
SignatureGuardIgnoresName(lines, opts, y0, p) ==
    /\ Truthy(opts.fullName)
    /\ HasClosing(lines)
    /\ y0 < pageHeight - bottomMargin - lineHeight(p) * 3

\* The condition of the signature block's if.
SignatureGuard(lines, opts, y0, p) ==
    /\ Truthy(opts.fullName)
    /\ HasClosing(lines)
    /\ ~HasNameInContent(lines, opts)
    /\ y0 < pageHeight - bottomMargin - lineHeight(p) * 3

\* Draw size of an image of natural size natW x natH.  The natural sizes
\* used here divide without remainder, so the quotients are exact.
SigDims(natW, natH) ==
    LET h0 == (sigMaxWidth * natH) \div natW
        w1 == IF h0 > sigMaxHeight THEN (sigMaxHeight * natW) \div natH ELSE sigMaxWidth
        h1 == IF h0 > sigMaxHeight THEN sigMaxHeight ELSE h0
    IN IF w1 < sigMinWidth
       THEN [w |-> sigMinWidth, h |-> (sigMinWidth * natH) \div natW]
       ELSE [w |-> w1, h |-> h1]

\* The estimate from the signature pad's 800 x 200.
EstimatedDims == SigDims(800, 200)

\* The synchronous branch is taken when the image is complete with known size.
SyncDimsKnown(sig, ready) == ready /\ sig.natW > 0 /\ sig.natH > 0

\* The body of the signature block's if, from cursor y0 on page pg.
\* doc.addImage throws on data it cannot embed, in the try and in the catch
\* alike, so the exception of the catch block's call leaves the function.
SignatureLayout(p, opts, ready, y0, pg) ==
    LET lh == lineHeight(p)
        brk == y0 + lh * 5 > pageHeight - bottomMargin
        pg1 == IF brk THEN pg + 1 ELSE pg
        y1 == IF brk THEN topMargin ELSE y0 + (3 * lh) \div 2
        sig == opts.signature
        sync == SyncDimsKnown(sig, ready)
        dims == IF sync THEN SigDims(sig.natW, sig.natH) ELSE EstimatedDims
        y2 == IF sig.present THEN y1 + dims.h + (3 * lh) \div 2 ELSE y1 + lh * 2
        img == IF sig.present THEN <<ImageDraw(pg1, y1, dims.w, dims.h, FALSE)>> ELSE <<>>
    IN IF sig.present /\ ~sig.embeds
       THEN [y |-> y1, page |-> pg1, draws |-> <<>>, onload |-> ~sync, threw |-> TRUE]
       ELSE [y |-> y2, page |-> pg1,
             draws |-> img \o <<TextDraw(pg1, y2, opts.fullName, 30, FALSE)>>,
             onload |-> sig.present /\ ~sync, threw |-> FALSE]

SignatureBlock ==
    /\ pc = "signature"
    /\ IF SignatureGuard(cleaned, options, y, profile)
       THEN LET r == SignatureLayout(profile, options, imgReady, y, page)
            IN /\ y' = r.y
               /\ page' = r.page
               /\ draws' = draws \o r.draws
               /\ onloadSet' = r.onload
               /\ pc' = IF r.threw THEN "threw" ELSE "save"
       ELSE /\ pc' = "save"
            /\ UNCHANGED <<y, page, draws, onloadSet>>
    /\ UNCHANGED <<profile, content, options, today, imgReady, cleaned, paragraphs, paraIndex, lineIdx,
                   saved, inv, firstDoc, firstEnv>>
    /\ UNCHANGED <<sliceVars, storageVars>>

\* doc.save(filename)
Save ==
    /\ pc = "save"
    /\ saved' = TRUE
    /\ pc' = "done"
    /\ firstDoc' = IF inv = 1 THEN draws ELSE firstDoc
    /\ firstEnv' = IF inv = 1 THEN [today |-> today, ready |-> imgReady] ELSE firstEnv
    /\ UNCHANGED <<profile, content, options, today, imgReady, y, page, draws,
                   cleaned, paragraphs, paraIndex, lineIdx, onloadSet, inv>>
    /\ UNCHANGED <<sliceVars, storageVars>>

\* img.onload: runs once the image has loaded, which is after the function that
\* assigned it has returned or thrown; it reads y as it then is.
ImgOnload ==
    /\ pc \in {"done", "threw"}
    /\ onloadSet
    /\ options.signature.natW > 0
    /\ options.signature.embeds
    /\ LET d == SigDims(options.signature.natW, options.signature.natH)
       IN draws' = Append(draws, ImageDraw(page, y, d.w, d.h, saved))
    /\ onloadSet' = FALSE
    /\ UNCHANGED <<profile, content, options, today, imgReady, pc, y, page, cleaned,
                   paragraphs, paraIndex, lineIdx, saved, inv, firstDoc, firstEnv>>
    /\ UNCHANGED <<sliceVars, storageVars>>

Next ==
    \/ SenderBlock
    \/ DateBlock
    \/ RecipientBlock
    \/ NormalizeSalutation
    \/ DedupContact
    \/ LayoutBody
    \/ LayoutEnd
    \/ SignatureBlock
    \/ Save
    \/ ImgOnload

Init == InitFrom(Inputs) /\ SliceInit /\ DefaultsInit({NoItem})

Spec == Init /\ [][Next]_vars

\* ------------------------------------------ the formatter called twice
\* The caller invokes the same formatter again with the same arguments:
\* a new document and a new cursor.
Again ==
    /\ pc \in {"done", "threw"}
    /\ inv = 1
    /\ inv' = 2
    /\ pc' = "sender"
    /\ y' = StartY(y)
    /\ page' = 1
    /\ draws' = <<>>
    /\ cleaned' = content
    /\ paragraphs' = <<>>
    /\ paraIndex' = 0
    /\ lineIdx' = 0
    /\ onloadSet' = FALSE
    /\ saved' = FALSE
    /\ UNCHANGED <<profile, content, options, today, imgReady, firstDoc, firstEnv>>
    /\ UNCHANGED <<sliceVars, storageVars>>

\* Midnight passes between the two invocations.
ClockTick ==
    /\ pc \in {"done", "threw"}
    /\ inv = 1
    /\ today = "November 2, 2026"
    /\ today' = "November 3, 2026"
    /\ UNCHANGED <<profile, content, options, imgReady, pc, y, page, draws, cleaned,
                   paragraphs, paraIndex, lineIdx, onloadSet, saved, inv, firstDoc, firstEnv>>
    /\ UNCHANGED <<sliceVars, storageVars>>

\* The browser finishes decoding the image between the two invocations, so
\* that the next new Image() of the same data is complete at once.
ImageDecoded ==
    /\ pc \in {"done", "threw"}
    /\ inv = 1
    /\ options.signature.natW > 0
    /\ ~imgReady
    /\ imgReady' = TRUE
    /\ UNCHANGED <<profile, content, options, today, pc, y, page, draws, cleaned,
                   paragraphs, paraIndex, lineIdx, onloadSet, saved, inv, firstDoc, firstEnv>>
    /\ UNCHANGED <<sliceVars, storageVars>>

\* Largest number of filler lines of the letters formatted twice.
MaxFillTwice == 2

TwiceCases ==
    { in \in LayoutCases : Len(in.content) <= 5 + MaxFillTwice }

InitTwice == InitFrom(TwiceCases) /\ SliceInit /\ DefaultsInit({NoItem})

NextTwice == Next \/ Again \/ ClockTick \/ ImageDecoded

SpecTwice == InitTwice /\ [][NextTwice]_vars

\* ------------------------------------ the slice and the store on their own
\* The formatter is not called in these specifications: its variables stay
\* as a letter that has not been started leaves them.
NoLetter ==
    { [profile |-> "pdf", content |-> <<>>,
       options |-> Options([fullName |-> <<>>, email |-> <<>>, phone |-> <<>>], <<>>, NoSig),
       imgReady |-> FALSE] }

InitTemplates == InitFrom(NoLetter) /\ SliceInit /\ DefaultsInit({NoItem})

NextTemplates ==
    \/ DispatchAddTemplate
    \/ DispatchUpdateTemplate
    \/ DispatchRemoveTemplate
    \/ DispatchSetActiveTemplate

SpecTemplates == InitTemplates /\ [][NextTemplates]_vars

\* Removal and activation only, down to the empty list.
NextRemoval ==
    \/ DispatchRemoveInitialTemplate
    \/ DispatchSetActiveTemplate

SpecRemoval == InitTemplates /\ [][NextRemoval]_vars

NextDefaults ==
    \/ CallLoadDefaults
    \/ CallSaveDefaults
    \/ CallClearDefaults

\* The calls on a browser that has never stored anything under the key.
InitDefaults == InitFrom(NoLetter) /\ SliceInit /\ DefaultsInit({NoItem})

SpecDefaults == InitDefaults /\ [][NextDefaults]_vars

\* The calls on whatever the browser holds under the key.
InitDefaultsAnyStorage == InitFrom(NoLetter) /\ SliceInit /\ DefaultsInit(StorageStates)

SpecDefaultsAnyStorage == InitDefaultsAnyStorage /\ [][NextDefaults]_vars

\* ============================================================== claims
\* Both normalization steps have run: cleaned is the normalized content.
Normalized == pc \in {"layout", "signature", "save", "done", "threw"}

\* The content as the contact-information step found it.
BeforeDedup == FixSalutation(content, options)

TextDraws == {i \in 1..Len(draws) : draws[i].kind = "text"}
ImageDraws == {i \in 1..Len(draws) : draws[i].kind = "image"}

\* The first line that is not blank, trimmed; <<>> when every line is blank.
FirstNonEmpty(lines) ==
    LET kept == SelectSeq(lines, LAMBDA l : Truthy(Trim(l)))
    IN IF Len(kept) = 0 THEN <<>> ELSE Trim(kept[1])

\* C1: every text draw, the typed name under a signature image included, is
\* issued at a vertical offset no greater than pageHeight - bottomMargin.
C1_TextAboveBottomMargin ==
    \A i \in TextDraws : draws[i].y <= pageHeight - bottomMargin

\* C2: every text line drawn (header lines, date, company, body sub-lines,
\* typed name) has a rendered width of at most maxWidth.
C2_TextWithinContentWidth ==
    \A i \in TextDraws : draws[i].w <= maxWidth

\* C3: for every input, a signature that cannot be embedded included, the
\* function runs to doc.save and no exception leaves it.
C3_NoExceptionEscapes == pc # "threw"

\* C4: a later image-load event adds no draw instruction: the document holds
\* at most one signature image and nothing is drawn after doc.save.
C4_OnloadDrawsNothing ==
    /\ Cardinality(ImageDraws) <= 1
    /\ \A i \in 1..Len(draws) : ~draws[i].late

\* The instructions a document held when it was saved.
UpToSave(ds) == SelectSeq(ds, LAMBDA d : ~d.late)

ColonForms(str) ==
    { SubSeq(str, 1, k) \o <<":">> :
        k \in {n \in 0..Len(str) : \A j \in (n + 1)..Len(str) : str[j] \in {",", " "}} }

\* C6: when the first non-empty line of the body matches a known salutation
\* pattern and does not end with a colon, the first non-empty line of the
\* normalized content is that salutation ending in a colon instead of its
\* trailing punctuation, also after leading blank lines.
C6_SalutationGetsColon ==
    LET f == FirstNonEmpty(content)
    IN (Normalized /\ IsKnownSalutation(f) /\ ~EndsWith(f, ":"))
           => FirstNonEmpty(cleaned) \in ColonForms(f)

\* A line that reads as a salutation: "Dear ..." or a known pattern.
ReadsAsSalutation(line) ==
    IsSalutationLine(Trim(line)) \/ IsKnownSalutation(Trim(line))

SalutationLines(lines) == {i \in 1..Len(lines) : ReadsAsSalutation(lines[i])}

\* C7: a body whose first line is already a salutation (one ending in a colon
\* or addressed to a name included) never has two salutation lines in the
\* normalized content.
C7_NoSecondSalutation ==
    (Normalized /\ ReadsAsSalutation(content[1]))
        => Cardinality(SalutationLines(cleaned)) <= 1

\* line, trimmed and compared case-insensitively, equals or contains field.
ContainsField(line, field) ==
    Truthy(field) /\ Includes(ToLower(Trim(line)), ToLower(field))

\* The same with all whitespace removed on both sides.
ContainsPhone(line, phone) ==
    Truthy(phone) /\ Includes(StripWs(ToLower(Trim(line))), StripWs(ToLower(phone)))

AnySenderField == Truthy(options.fullName) \/ Truthy(options.email) \/ Truthy(options.phone)

\* C8: with a sender field supplied and a closing line in the content, no line
\* after the first closing line of the normalized content equals or contains
\* the sender's name or email (case-insensitively) or phone (whitespace
\* removed), and the lines up to and including the closing are unchanged.
C8_NoContactLineAfterClosing ==
    LET ci == ClosingIndex(BeforeDedup)
    IN (Normalized /\ AnySenderField /\ ci >= 1)
           => /\ Len(cleaned) >= ci
              /\ SubSeq(cleaned, 1, ci) = SubSeq(BeforeDedup, 1, ci)
              /\ \A i \in (ci + 1)..Len(cleaned) :
                    /\ ~ContainsField(cleaned[i], options.fullName)
                    /\ ~ContainsField(cleaned[i], options.email)
                    /\ ~ContainsPhone(cleaned[i], options.phone)

\* A letter whose lines after the closing repeat the email in another case and
\* the phone without its blank, both of which were dropped.
C8_Witness ==
    LET ci == ClosingIndex(BeforeDedup)
    IN /\ Normalized
       /\ ci >= 1
       /\ Len(cleaned) < Len(BeforeDedup)
       /\ \E i \in (ci + 1)..Len(BeforeDedup) :
              BeforeDedup[i] # options.email /\ ContainsField(BeforeDedup[i], options.email)
       /\ ci >= 3

\* Normalization dropped a line after the closing that repeats the name.
NameLineDropped ==
    LET ci == ClosingIndex(BeforeDedup)
    IN /\ Truthy(options.fullName)
       /\ ci >= 1
       /\ \E i \in (ci + 1)..Len(BeforeDedup) :
              ContainsField(BeforeDedup[i], options.fullName)

\* The typed name is drawn somewhere after the closing line.
TypedNameAfterClosing ==
    \E i \in TextDraws : \E j \in TextDraws :
        i < j /\ IsClosing(draws[i].text) /\ draws[j].text = options.fullName

\* C9: when a sender name is supplied and normalization drops a name line
\* after the closing, the finished document has the typed name after the
\* closing line, for every body and every cursor position.
C9_DroppedNameIsTypedAgain ==
    (pc = "done" /\ NameLineDropped) => TypedNameAfterClosing

NoHeaderFields ==
    ~Truthy(options.fullName) /\ ~Truthy(options.email) /\ ~Truthy(options.phone)
    /\ ~Truthy(options.companyName)

\* C10 as stated: without sender and company nothing is emitted before the
\* body and the cursor is still at topMargin when the body starts.
C10_BodyStartsAtTopMargin ==
    (NoHeaderFields /\ pc = "layout" /\ paraIndex = 0 /\ lineIdx = 0)
        => (draws = <<>> /\ y = topMargin)

\* Where the body starts when neither a sender nor a company is drawn.
BodyStartNoHeader(p) ==
    topMargin + (paragraphSpacing(p) + 5 * Scale)
    + (IF p = "pdf" THEN paragraphSpacing(p) ELSE 0)

\* The spacing the layout adds in front of a first line of that kind.
LeadSpacing(line, p) ==
    (IF IsSalutationLine(line) THEN paragraphSpacing(p) \div 2 ELSE 0)
    + (IF IsClosing(line) THEN paragraphSpacing(p) + 2 * Scale ELSE 0)

\* C10, amended: without sender and company no sender or company line is
\* drawn; the only draw before the body is the date at topMargin on page 1,
\* and the first body line is drawn on page 1 at topMargin + paragraphSpacing
\* + 5 (in generatePDF a further paragraphSpacing) plus the spacing that goes
\* in front of a salutation or closing line.
C10_OnlyDateBeforeBody ==
    (NoHeaderFields /\ pc \in {"layout", "signature", "save", "done"})
        => /\ Len(draws) >= 1
           /\ draws[1] = TextDraw(1, topMargin, <<today>>, 40, FALSE)
           /\ (pc = "layout" /\ paraIndex = 0 /\ lineIdx = 0)
                 => (Len(draws) = 1 /\ y = BodyStartNoHeader(profile))
           /\ Len(draws) >= 2 =>
                 /\ draws[2].kind = "text"
                 /\ draws[2].page = 1
                 /\ draws[2].text = splitTextToSize(FirstNonEmpty(cleaned), maxWidth)[1]
                 /\ draws[2].y = BodyStartNoHeader(profile) + LeadSpacing(draws[2].text, profile)

C10_Witness ==
    /\ NoHeaderFields
    /\ pc = "done"
    /\ profile = "pdf"
    /\ Len(draws) >= 3
    /\ IsSalutationLine(draws[2].text)
    /\ draws[2].y = topMargin + 19 * Scale + (7 * Scale) \div 2

\* C15: no exception leaves loadDefaults, saveDefaults or clearDefaults;
\* loadDefaults returns the empty record when getItem throws, when nothing is
\* stored and when the stored text cannot be parsed; a save or a clear whose
\* storage operation throws leaves the stored item as it was.
C15_StorageFailuresStayInside ==
    [][ /\ ~returned'.threw
        /\ (/\ returned'.call = "loadDefaults"
            /\ (returned'.failed \/ ~storage.present \/ ~JSONparse(storage.text).ok))
           => (returned'.kind = "object" /\ returned'.value = EmptyDefaults)
        /\ (returned'.call \in {"saveDefaults", "clearDefaults"} /\ returned'.failed)
           => storage' = storage ]_vars

\* A read of text that is no JSON came back with the empty record.
C15_Witness ==
    /\ returned.call = "loadDefaults"
    /\ ~returned.failed
    /\ storage.present /\ Truthy(storage.text) /\ ~JSONparse(storage.text).ok
    /\ returned.value = EmptyDefaults

\* C17: activeTemplateId is null or the id of a template in the list.
C17_ActiveTemplateExists ==
    \/ activeTemplateId = Null
    \/ \E i \in 1..Len(templates) : templates[i].id = activeTemplateId[1]

\* C18: removeTemplate(id) leaves no template with that id and the others in
\* their order; an active id that was removed becomes the id of the first
\* template left, or null when none is left; any other active id stays.
C18_RemoveTemplateEffect ==
    [][ \A id \in InitialIds \cup RemovedIds :
          RemoveTemplateStep(id) =>
            /\ \A i \in 1..Len(templates') : templates'[i].id # id
            /\ templates' = SelectSeq(templates, LAMBDA t : t.id # id)
            /\ activeTemplateId = <<id>> =>
                  activeTemplateId' = IF templates' = <<>> THEN Null
                                      ELSE <<templates'[1].id>>
            /\ activeTemplateId # <<id>> => activeTemplateId' = activeTemplateId ]_vars

\* The last template was removed while it was the active one.
C18_Witness ==
    /\ templates = <<>>
    /\ activeTemplateId = Null

\* C20: a loadDefaults whose read succeeds returns the record of the last
\* save that took effect and was not cleared since, and the empty record
\* when there is none.
C20_LoadReturnsLastSave ==
    (returned.call = "loadDefaults" /\ ~returned.failed) =>
        /\ returned.kind = "object"
        /\ returned.value = IF lastSaved.some THEN lastSaved.value ELSE EmptyDefaults

\* A record with a quote and a backslash in it was saved and read back.
C20_Witness ==
    /\ returned.call = "loadDefaults" /\ ~returned.failed
    /\ lastSaved.some
    /\ Truthy(lastSaved.value.fullName) /\ Truthy(lastSaved.value.techStack)
    /\ returned.value = lastSaved.value

\* The conditions the signature block is appended under, the cursor aside.
SignatureWanted ==
    /\ Truthy(options.fullName)
    /\ HasClosing(cleaned)
    /\ ~HasNameInContent(cleaned, options)

\* The typed name under the signature area: the name in normal weight (the
\* header draws it bold).
TypedNames ==
    {i \in TextDraws : draws[i].text = options.fullName /\ draws[i].color = 30
                       /\ ~draws[i].bold}

\* C11: with a sender name, a closing as the last non-blank line and no
\* occurrence of the name in the normalized content, a document that is
\* saved has the typed name of the signature block, wherever the body ended.
C11_SignatureBlockAlwaysEmitted ==
    (pc \in {"save", "done"} /\ SignatureWanted) => TypedNames # {}

\* C12: unless a sender name is supplied, the last non-blank line is a closing
\* and the name does not occur in the normalized content, nothing follows the
\* body: no draw, no move of the cursor, no new page, no pending image.
C12_SignatureBlockOnlyWhenWanted ==
    [][ (pc \in {"signature", "save", "done", "threw"} /\ ~SignatureWanted)
            => (draws' = draws /\ y' = y /\ page' = page /\ ~onloadSet') ]_vars

\* A saved letter with a name, a closing and a signature image whose body
\* mentions the name: it ends with its closing line.
C12_Witness ==
    /\ pc = "done"
    /\ Truthy(options.fullName) /\ HasClosing(cleaned)
    /\ HasNameInContent(cleaned, options)
    /\ options.signature.present /\ options.signature.embeds
    /\ y < pageHeight - bottomMargin - lineHeight(profile) * 3
    /\ ImageDraws = {} /\ TypedNames = {}
    /\ IsClosing(draws[Len(draws)].text)

\* The image draws made from the image's natural size: all of them when the
\* image was complete, otherwise those after the estimated one.
KnownSizeDraws ==
    {i \in ImageDraws : \/ SyncDimsKnown(options.signature, imgReady)
                        \/ \E j \in ImageDraws : j < i}

\* C13: an image drawn from its natural size w x h keeps the ratio h/w, is
\* between 50 and 100 mm wide and at most 30 mm high.
C13_SignatureBoxInEnvelope ==
    \A i \in KnownSizeDraws :
        /\ draws[i].h * options.signature.natW = draws[i].w * options.signature.natH
        /\ sigMinWidth <= draws[i].w /\ draws[i].w <= sigMaxWidth
        /\ draws[i].h <= sigMaxHeight

HasBracket(str) == \E i \in 1..Len(str) : str[i] \in {"[", "]"}

\* C14: every sub-line of a body line with a placeholder that holds a bracket
\* of it is drawn in colour 100 and normal weight.
C14_PlaceholderSubLinesMuted ==
    Normalized =>
        \A pi \in 1..Len(paragraphs) : \A li \in 1..Len(paragraphs[pi]) :
            HasPlaceholder(paragraphs[pi][li]) =>
                LET subs == splitTextToSize(paragraphs[pi][li], maxWidth)
                IN \A k \in 1..Len(subs) : \A i \in TextDraws :
                       (HasBracket(subs[k]) /\ draws[i].text = subs[k])
                           => (draws[i].color = 100 /\ ~draws[i].bold)

\* Most paragraphs one page holds: a paragraph takes a line and the spacing
\* after it, and its line starts no lower than pageHeight - bottomMargin -
\* lineHeight.
PerPage(p) ==
    (pageHeight - bottomMargin - lineHeight(p) - topMargin)
        \div (lineHeight(p) + paragraphSpacing(p) + Scale) + 1

\* C16: a document has at least one page; the first draw on a new page is at
\* topMargin (the typed name under an empty signature area two lines lower);
\* and the paragraphs laid out so far number at most PerPage for every page,
\* so that more than n * PerPage paragraphs give more than n pages.
C16_PagesGrowWithBody ==
    /\ page >= 1
    /\ \A i \in 2..Len(draws) :
          (draws[i].page # draws[i - 1].page /\ ~draws[i].late) =>
              /\ draws[i].page = draws[i - 1].page + 1
              /\ \/ draws[i].y = topMargin
                 \/ /\ i \in TypedNames
                    /\ draws[i].y = topMargin + 2 * lineHeight(profile)
    /\ pc \in {"layout", "signature", "save", "done", "threw"}
          => paraIndex <= page * PerPage(profile)

\* A saved body of one-line paragraphs that took a third page.
C16_Witness ==
    /\ pc = "done"
    /\ content = OneLineParagraphs(Len(paragraphs))
    /\ Len(paragraphs) > 2 * PerPage(profile)
    /\ page = 3
    /\ \E i \in TextDraws : draws[i].page = 3 /\ draws[i].y = topMargin

\* A line that is not blank and has neither name, email nor phone in it.
NotContact(line) ==
    /\ Truthy(Trim(line))
    /\ ~ContainsField(line, options.fullName)
    /\ ~ContainsField(line, options.email)
    /\ ~ContainsPhone(line, options.phone)

\* C19: the lines after the first closing that are not blank and hold no
\* sender field are all kept, in their order.
C19_OtherLinesKept ==
    LET ci == ClosingIndex(BeforeDedup)
    IN (Normalized /\ ci >= 1) =>
           SelectSeq(SubSeq(cleaned, ci + 1, Len(cleaned)), NotContact)
               = SelectSeq(SubSeq(BeforeDedup, ci + 1, Len(BeforeDedup)), NotContact)

====
